---- MODULE Spec2Model ----
(***************************************************************************)
(* Model of nested_diff (Nested-Diff.py 0.3): the recursive differ         *)
(* (Differ.diff, diff_dicts, diff_lists, get_default_diff), the patch      *)
(* applier (patch) and the patch tool's run().                             *)
(*                                                                         *)
(* Python values are tagged records [t, v]; a diff node is itself a Python *)
(* dict, so nodes are values of tag "dict" whose keys are the markers      *)
(* U A R N O D I.  Indices are Python's (0-based); At(s, i) reads s[i].    *)
(* Mappings are modelled extensionally (a function from keys to values),   *)
(* so dict insertion order is not part of a value.                         *)
(***************************************************************************)
EXTENDS Integers, Sequences, FiniteSets, TLC

VARIABLES a, b, self, pc, w, hist, d, pf, out

vars == <<a, b, self, pc, w, hist, d, pf, out>>

(* Python values *)

None == [t |-> "none", v |-> 0]
Num(n) == [t |-> "int", v |-> n]
List(s) == [t |-> "list", v |-> s]
Dict(f) == [t |-> "dict", v |-> f]
Exc(name) == [t |-> "exc", v |-> name]

IsList(x) == x.t = "list"
IsDict(x) == x.t = "dict"
IsExc(x) == x.t = "exc"

EmptyDict == Dict(<<>>)

\* s[i] for a 0-based index i
At(s, i) == s[i + 1]

\* `k in d` for a dict d
In(k, x) == k \in DOMAIN x.v

\* truth value of a dict or a list: non-empty
Truthy(x) == IF IsDict(x) THEN DOMAIN x.v # {} ELSE Len(x.v) > 0

\* f with f[k] = x
FPut(f, k, x) == [kk \in (DOMAIN f) \cup {k} |-> IF kk = k THEN x ELSE f[kk]]

\* f without k
FDel(f, k) == [kk \in (DOMAIN f) \ {k} |-> f[kk]]

\* d[k] = x on a dict d
SetKey(x, k, y) == Dict(FPut(x.v, k, y))

(* pickle.dumps(i, -1): a byte string that depends on the structure of i   *)
(* only.  Bytes are naturals; the opcodes are pickle's (memo opcodes are   *)
(* left out, they do not distinguish values).                              *)

\* the UTF-8 bytes of a key
KeyBytes(k) ==
    CASE k = "x" -> <<120>>
      [] k = "y" -> <<121>>
      [] k = "one" -> <<111, 110, 101>>
      [] k = "two" -> <<116, 119, 111>>
      [] k = "three" -> <<116, 104, 114, 101, 101>>

KeyOrder == <<"one", "three", "two", "x", "y">>

KeyRank(k) == CHOOSE n \in 1 .. Len(KeyOrder) : KeyOrder[n] = k

RECURSIVE save(_), save_items(_), save_entries(_, _)

\* concatenated pickles of the items of a sequence
save_items(s) == IF s = <<>> THEN <<>> ELSE save(Head(s)) \o save_items(Tail(s))

\* concatenated pickles of the entries of a dict, over the given keys
save_entries(f, keys) ==
    IF keys = {} THEN <<>>
    ELSE LET k == CHOOSE kk \in keys : \A o \in keys : KeyRank(kk) <= KeyRank(o)
         IN <<88, Len(KeyBytes(k))>> \o KeyBytes(k) \o save(f[k])
                \o save_entries(f, keys \ {k})

save(x) ==
    CASE x.t = "none" -> <<78>>
      [] x.t = "int" -> <<75, x.v>>
      [] x.t = "list" -> IF x.v = <<>> THEN <<93>>
                         ELSE <<93, 40>> \o save_items(x.v) \o <<101>>
      [] x.t = "dict" -> IF DOMAIN x.v = {} THEN <<125>>
                         ELSE <<125, 40>> \o save_entries(x.v, DOMAIN x.v) \o <<117>>

dumps(x) == <<128>> \o save(x) \o <<46>>

(* difflib.SequenceMatcher(isjunk=None, autojunk=False): the object held   *)
(* by Differ.lcs.  matching_blocks is the cache; <<>> stands for None (a   *)
(* computed list always ends with the sentinel, so it is never empty).     *)

NewMatcher == [a |-> <<>>, b |-> <<>>, matching_blocks |-> <<>>]

set_seq1(lcs, s) == [lcs EXCEPT !.a = s, !.matching_blocks = <<>>]

set_seq2(lcs, s) == [lcs EXCEPT !.b = s, !.matching_blocks = <<>>]

RECURSIVE RunLen(_, _, _, _, _, _)

\* length of the run of equal elements starting at A[i], B[j]
RunLen(A, B, i, j, ahi, bhi) ==
    IF i < ahi /\ j < bhi /\ At(A, i) = At(B, j)
    THEN 1 + RunLen(A, B, i + 1, j + 1, ahi, bhi)
    ELSE 0

\* longest matching block in A[alo:ahi], B[blo:bhi]; of the longest ones
\* the one starting earliest in A, then earliest in B
find_longest_match(A, B, alo, ahi, blo, bhi) ==
    LET runs == {<<p[1], p[2], RunLen(A, B, p[1], p[2], ahi, bhi)>> :
                    p \in (alo .. ahi - 1) \X (blo .. bhi - 1)}
        cands == {r \in runs : r[3] > 0}
    IN IF cands = {} THEN <<alo, blo, 0>>
       ELSE CHOOSE p \in cands :
                \A q \in cands :
                    \/ p[3] > q[3]
                    \/ p[3] = q[3] /\ p[1] < q[1]
                    \/ p[3] = q[3] /\ p[1] = q[1] /\ p[2] <= q[2]

RECURSIVE match_ranges(_, _, _, _, _, _), collapse(_, _)

\* the blocks found in A[alo:ahi], B[blo:bhi], left to right
match_ranges(A, B, alo, ahi, blo, bhi) ==
    LET x == find_longest_match(A, B, alo, ahi, blo, bhi)
        i == x[1]
        j == x[2]
        k == x[3]
    IN IF k = 0 THEN <<>>
       ELSE (IF alo < i /\ blo < j THEN match_ranges(A, B, alo, i, blo, j) ELSE <<>>)
            \o <<x>>
            \o (IF i + k < ahi /\ j + k < bhi
                THEN match_ranges(A, B, i + k, ahi, j + k, bhi) ELSE <<>>)

\* adjacent blocks are merged into one
collapse(blocks, cur) ==
    IF blocks = <<>> THEN (IF cur[3] > 0 THEN <<cur>> ELSE <<>>)
    ELSE LET x == Head(blocks)
         IN IF cur[1] + cur[3] = x[1] /\ cur[2] + cur[3] = x[2]
            THEN collapse(Tail(blocks), <<cur[1], cur[2], cur[3] + x[3]>>)
            ELSE (IF cur[3] > 0 THEN <<cur>> ELSE <<>>) \o collapse(Tail(blocks), x)

\* the list get_matching_blocks computes for seq1 = A, seq2 = B
matching_blocks(A, B) ==
    collapse(match_ranges(A, B, 0, Len(A), 0, Len(B)), <<0, 0, 0>>)
        \o << <<Len(A), Len(B), 0>> >>

\* returns the cached list when there is one, computes and caches otherwise
get_matching_blocks(lcs) ==
    IF lcs.matching_blocks # <<>>
    THEN [ret |-> lcs.matching_blocks, lcs |-> lcs]
    ELSE LET m == matching_blocks(lcs.a, lcs.b)
         IN [ret |-> m, lcs |-> [lcs EXCEPT !.matching_blocks = m]]

(* class Differ.  A method returns [ret, self]: its value and the object   *)
(* after the call (the matcher self.lcs is the only field that changes).   *)

Differ(A, N, O, R, U, trimR) ==
    [lcs |-> NewMatcher, op_a |-> A, op_n |-> N, op_o |-> O, op_r |-> R,
     op_u |-> U, op_trim_r |-> trimR]

\* mutant: N and O change places
get_default_diff_swapped(slf, x, y) ==
    LET n == IF slf.op_n THEN FPut(<<>>, "N", x) ELSE <<>>
    IN Dict(IF slf.op_o THEN FPut(n, "O", y) ELSE n)

get_default_diff(slf, x, y) ==
    LET n == IF slf.op_n THEN FPut(<<>>, "N", y) ELSE <<>>
    IN Dict(IF slf.op_o THEN FPut(n, "O", x) ELSE n)

\* mutant: the removed value is never trimmed
RemovedUntrimmed(slf, x) == Dict([R |-> x])

\* {'R': None if self.op_trim_r else x}: the node of a removed item x
Removed(slf, x) == Dict([R |-> IF slf.op_trim_r THEN None ELSE x])

RECURSIVE diff(_, _, _), diff_dicts(_, _, _), diff_lists(_, _, _)

\* mutant: the shapes are looked at before the operands are compared
diff_by_shape(slf, x, y) ==
    IF IsDict(x) /\ IsDict(y) THEN diff_dicts(slf, x, y)
    ELSE IF IsList(x) /\ IsList(y) THEN diff_lists(slf, x, y)
    ELSE IF x = y
    THEN [ret |-> IF slf.op_u THEN Dict([U |-> x]) ELSE EmptyDict, self |-> slf]
    ELSE [ret |-> get_default_diff(slf, x, y), self |-> slf]

\* mutant: a changed leaf is recorded only when old values are
diff_leaf_needs_old(slf, x, y) ==
    IF x = y
    THEN [ret |-> IF slf.op_u THEN Dict([U |-> x]) ELSE EmptyDict, self |-> slf]
    ELSE IF IsDict(x) /\ IsDict(y) THEN diff_dicts(slf, x, y)
    ELSE IF IsList(x) /\ IsList(y) THEN diff_lists(slf, x, y)
    ELSE [ret |-> IF slf.op_o THEN get_default_diff(slf, x, y) ELSE EmptyDict,
          self |-> slf]

diff(slf, x, y) ==
    IF x = y
    THEN [ret |-> IF slf.op_u THEN Dict([U |-> x]) ELSE EmptyDict, self |-> slf]
    ELSE IF IsDict(x) /\ IsDict(y) THEN diff_dicts(slf, x, y)
    ELSE IF IsList(x) /\ IsList(y) THEN diff_lists(slf, x, y)
    ELSE [ret |-> get_default_diff(slf, x, y), self |-> slf]

\* mutant: an unchanged key is recorded whatever op_u says
diff_dicts_all_keys(slf, x, y) ==
    LET RECURSIVE loop(_, _, _)
        loop(keys, D, s) ==
            IF keys = {} THEN [D |-> D, self |-> s]
            ELSE LET key == CHOOSE k \in keys : TRUE
                     rest == keys \ {key}
                 IN IF In(key, x) /\ In(key, y)
                    THEN IF x.v[key] = y.v[key]
                         THEN loop(rest, FPut(D, key, Dict([U |-> x.v[key]])), s)
                         ELSE LET sub == diff(s, x.v[key], y.v[key])
                              IN IF Truthy(sub.ret)
                                 THEN loop(rest, FPut(D, key, sub.ret), sub.self)
                                 ELSE loop(rest, D, sub.self)
                    ELSE IF In(key, x)
                    THEN IF s.op_r
                         THEN loop(rest, FPut(D, key, Removed(s, x.v[key])), s)
                         ELSE loop(rest, D, s)
                    ELSE IF s.op_a
                         THEN loop(rest, FPut(D, key, Dict([A |-> y.v[key]])), s)
                         ELSE loop(rest, D, s)
        r == loop((DOMAIN x.v) \cup (DOMAIN y.v), <<>>, slf)
    IN [ret |-> IF DOMAIN r.D = {} THEN EmptyDict ELSE Dict([D |-> Dict(r.D)]),
        self |-> r.self]

\* the keys of set(list(a) + list(b)) are visited in an order of the set's
\* choosing; each key is handled on its own
diff_dicts(slf, x, y) ==
    LET RECURSIVE loop(_, _, _)
        loop(keys, D, s) ==
            IF keys = {} THEN [D |-> D, self |-> s]
            ELSE LET key == CHOOSE k \in keys : TRUE
                     rest == keys \ {key}
                 IN IF In(key, x) /\ In(key, y)
                    THEN IF x.v[key] = y.v[key]
                         THEN IF s.op_u
                              THEN loop(rest, FPut(D, key, Dict([U |-> x.v[key]])), s)
                              ELSE loop(rest, D, s)
                         ELSE LET sub == diff(s, x.v[key], y.v[key])
                              IN IF Truthy(sub.ret)
                                 THEN loop(rest, FPut(D, key, sub.ret), sub.self)
                                 ELSE loop(rest, D, sub.self)
                    ELSE IF In(key, x)
                    THEN IF s.op_r
                         THEN loop(rest, FPut(D, key, Removed(s, x.v[key])), s)
                         ELSE loop(rest, D, s)
                    ELSE IF s.op_a
                         THEN loop(rest, FPut(D, key, Dict([A |-> y.v[key]])), s)
                         ELSE loop(rest, D, s)
        r == loop((DOMAIN x.v) \cup (DOMAIN y.v), <<>>, slf)
    IN [ret |-> IF DOMAIN r.D = {} THEN EmptyDict ELSE Dict([D |-> Dict(r.D)]),
        self |-> r.self]

\* diff_lists up to the for statement: the matcher is loaded, the list of
\* blocks is fetched once, the locals are initialised.  The frame holds the
\* locals (ret is ret['D']; n is the for loop's position in blocks).
diff_lists_enter(slf, x, y) ==
    LET l1 == set_seq1(slf.lcs, [k \in 1 .. Len(x.v) |-> dumps(x.v[k])])
        l2 == set_seq2(l1, [k \in 1 .. Len(y.v) |-> dumps(y.v[k])])
        g == get_matching_blocks(l2)
    IN [self |-> [slf EXCEPT !.lcs = g.lcs], blocks |-> g.ret, n |-> 1,
        ret |-> <<>>, i |-> 0, j |-> 0, force_index |-> FALSE]

\* mutant: the for loop reads the matcher's list anew at every iteration (the
\* sentinel once the list is exhausted)
CurBlockLive(f) ==
    LET m == get_matching_blocks(f.self.lcs).ret
    IN IF f.n <= Len(m) THEN m[f.n] ELSE m[Len(m)]

\* the block the for loop is at
CurBlock(f) == f.blocks[f.n]

\* which of the three while loops runs next, "next" when all are exhausted
LoopAt(f) ==
    IF f.i < CurBlock(f)[1] /\ f.j < CurBlock(f)[2] THEN "pair"
    ELSE IF f.i < CurBlock(f)[1] THEN "removed"
    ELSE IF f.j < CurBlock(f)[2] THEN "added"
    ELSE "next"

\* mutant: the cursors are moved past the block
NextBlockSkip(f) ==
    [f EXCEPT !.n = @ + 1, !.i = CurBlock(f)[1] + CurBlock(f)[3],
              !.j = CurBlock(f)[2] + CurBlock(f)[3]]

\* the for loop takes the next block; i and j stay where the loops left them
NextBlock(f) == [f EXCEPT !.n = @ + 1]

\* mutant: force_index is not reset
EmitKeepFlag(f, item) ==
    [f EXCEPT !.ret = Append(@, IF f.force_index THEN SetKey(item, "I", Num(f.i)) ELSE item)]

\* ret['D'].append(item) followed by the force_index test
Emit(f, item) ==
    [f EXCEPT !.ret = Append(@, IF f.force_index THEN SetKey(item, "I", Num(f.i)) ELSE item),
              !.force_index = FALSE]

\* one iteration of one of the while loops, or the step to the next block
diff_lists_step(f, x, y) ==
    CASE LoopAt(f) = "pair" ->
            LET sub == diff(f.self, At(x.v, f.i), At(y.v, f.j))
                g == [f EXCEPT !.self = sub.self]
                h == IF Truthy(sub.ret) THEN Emit(g, sub.ret)
                     ELSE [g EXCEPT !.force_index = TRUE]
            IN [h EXCEPT !.i = @ + 1, !.j = @ + 1]
      [] LoopAt(f) = "removed" ->
            LET h == IF f.self.op_r
                     THEN Emit(f, Removed(f.self, At(x.v, f.i)))
                     ELSE [f EXCEPT !.force_index = TRUE]
            IN [h EXCEPT !.i = @ + 1]
      [] LoopAt(f) = "added" ->
            LET h == IF f.self.op_a
                     THEN Emit(f, Dict([A |-> At(y.v, f.j)]))
                     ELSE [f EXCEPT !.force_index = TRUE]
            IN [h EXCEPT !.j = @ + 1]
      [] LoopAt(f) = "next" -> NextBlock(f)

\* the for loop is over
Walked(f) == f.n > Len(f.blocks)

diff_lists_return(f) ==
    IF f.ret = <<>> THEN EmptyDict ELSE Dict([D |-> List(f.ret)])

diff_lists(slf, x, y) ==
    LET RECURSIVE run(_)
        run(f) == IF Walked(f) THEN f ELSE run(diff_lists_step(f, x, y))
        fin == run(diff_lists_enter(slf, x, y))
    IN [ret |-> diff_lists_return(fin), self |-> fin.self]

(* patch.  A raised exception is the value Exc(name); it propagates to the *)
(* caller.  Diff nodes and their children are dicts.                       *)

\* target[key] for a str key
getitem(target, key) ==
    IF IsDict(target)
    THEN (IF In(key, target) THEN target.v[key] ELSE Exc("KeyError"))
    ELSE Exc("TypeError")

\* target[key] = x for a str key
setitem(target, key, x) ==
    IF IsDict(target) THEN SetKey(target, key, x) ELSE Exc("TypeError")

\* del target[key] for a str key
delitem(target, key) ==
    IF IsDict(target)
    THEN (IF In(key, target) THEN Dict(FDel(target.v, key)) ELSE Exc("KeyError"))
    ELSE Exc("TypeError")

\* a list accepts the indices -len .. len-1, the negative ones from the end
InRange(s, i) == -Len(s) <= i /\ i < Len(s)

Norm(s, i) == IF i < 0 THEN i + Len(s) ELSE i

\* target[i] for an int i (a dict of str keys has no int key)
getitem_at(target, i) ==
    IF IsList(target)
    THEN (IF InRange(target.v, i) THEN At(target.v, Norm(target.v, i))
          ELSE Exc("IndexError"))
    ELSE IF IsDict(target) THEN Exc("KeyError")
    ELSE Exc("TypeError")

\* target[i] = x for an int i, on a target that has target[i]
setitem_at(target, i, x) ==
    IF IsList(target)
    THEN (IF InRange(target.v, i)
          THEN List([n \in 1 .. Len(target.v) |->
                       IF n = Norm(target.v, i) + 1 THEN x ELSE target.v[n]])
          ELSE Exc("IndexError"))
    ELSE Exc("TypeError")

\* target.insert(i, x): the position is clamped to 0 .. len, never refused
insert(target, i, x) ==
    IF IsList(target)
    THEN LET n == Len(target.v)
             p == IF i < 0 THEN (IF i + n < 0 THEN 0 ELSE i + n)
                  ELSE (IF i > n THEN n ELSE i)
         IN List(SubSeq(target.v, 1, p) \o <<x>> \o SubSeq(target.v, p + 1, n))
    ELSE Exc("AttributeError")

\* del target[i] for an int i
delitem_at(target, i) ==
    IF IsList(target)
    THEN (IF InRange(target.v, i)
          THEN LET p == Norm(target.v, i)
               IN List(SubSeq(target.v, 1, p) \o SubSeq(target.v, p + 2, Len(target.v)))
          ELSE Exc("IndexError"))
    ELSE IF IsDict(target) THEN Exc("KeyError")
    ELSE Exc("TypeError")

RECURSIVE patch(_, _)

\* the body of the loop over diff['D'].items() for one item
patch_dict_item(target, key, subdiff) ==
    IF In("D", subdiff) \/ In("N", subdiff)
    THEN LET cur == getitem(target, key)
             new == IF IsExc(cur) THEN cur ELSE patch(cur, subdiff)
         IN IF IsExc(new) THEN new ELSE setitem(target, key, new)
    ELSE IF In("A", subdiff) THEN setitem(target, key, subdiff.v["A"])
    ELSE IF In("R", subdiff) THEN delitem(target, key)
    ELSE target

\* the items are visited in the dict's order; each addresses its own key
patch_dict(target, D) ==
    LET RECURSIVE loop(_, _)
        loop(keys, t) ==
            IF keys = {} \/ IsExc(t) THEN t
            ELSE LET key == CHOOSE k \in keys : TRUE
                 IN loop(keys \ {key}, patch_dict_item(t, key, D.v[key]))
    IN loop(DOMAIN D.v, target)

\* patch over a list D up to the for statement; the frame holds the locals
\* (n is the for loop's position in diff['D'])
patch_list_enter(target, D) == [target |-> target, D |-> D.v, n |-> 1, i |-> 0, j |-> 0]

\* the child the for loop is at
CurChild(f) == f.D[f.n]

\* mutant: the scatter is not added
CursorNoScatter(f) == IF In("I", CurChild(f)) THEN CurChild(f).v["I"].v ELSE f.i

\* i once the child's I, if any, has been applied
Cursor(f) == IF In("I", CurChild(f)) THEN CurChild(f).v["I"].v + f.j ELSE f.i

\* one iteration of the for loop
patch_list_step(f) ==
    LET subdiff == CurChild(f)
        i == Cursor(f)
    IN IF In("D", subdiff) \/ In("N", subdiff)
       THEN LET cur == getitem_at(f.target, i)
                new == IF IsExc(cur) THEN cur ELSE patch(cur, subdiff)
                t == IF IsExc(new) THEN new ELSE setitem_at(f.target, i, new)
            IN [f EXCEPT !.target = t, !.i = i + 1, !.n = @ + 1]
       ELSE IF In("A", subdiff)
       THEN [f EXCEPT !.target = insert(f.target, i, subdiff.v["A"]),
                      !.i = i + 1, !.j = @ + 1, !.n = @ + 1]
       ELSE IF In("R", subdiff)
       THEN [f EXCEPT !.target = delitem_at(f.target, i),
                      !.i = i, !.j = @ - 1, !.n = @ + 1]
       ELSE [f EXCEPT !.i = i + 1, !.n = @ + 1]

\* the for loop is over, or an exception has left it
Patched(f) == f.n > Len(f.D) \/ IsExc(f.target)

patch_list(target, D) ==
    LET RECURSIVE run(_)
        run(f) == IF Patched(f) THEN f ELSE run(patch_list_step(f))
    IN run(patch_list_enter(target, D)).target

patch(target, node) ==
    IF In("D", node)
    THEN IF IsDict(node.v["D"]) THEN patch_dict(target, node.v["D"])
         ELSE IF IsList(node.v["D"]) THEN patch_list(target, node.v["D"])
         ELSE Exc("NotImplementedError")
    ELSE IF In("N", node) THEN node.v["N"]
    ELSE target

(* The inputs.  A value's size is the number of its nodes; containers are  *)
(* nested at most two deep.  V below is a function from a size to the set  *)
(* of values of that size.                                                 *)

MaxSize == 6

Scalars == {Num(0), Num(1)}

Keys == {"x"}

TwoKeys == {"x", "y"}

RECURSIVE SeqsOver(_, _), MapsOver(_, _, _)

\* the sequences of items of V whose sizes add up to m
SeqsOver(V, m) ==
    IF m = 0 THEN {<<>>}
    ELSE UNION {{<<h>> \o t : h \in V[k], t \in SeqsOver(V, m - k)} : k \in 1 .. m}

\* the functions from some of the keys to items of V whose sizes add up to m
MapsOver(V, keys, m) ==
    IF keys = {} THEN (IF m = 0 THEN {<<>>} ELSE {})
    ELSE LET key == CHOOSE k \in keys : TRUE
             rest == keys \ {key}
         IN MapsOver(V, rest, m)
            \cup UNION {{FPut(f, key, h) : h \in V[k], f \in MapsOver(V, rest, m - k)}
                        : k \in 1 .. m}

Level0 == [n \in 1 .. MaxSize |-> IF n = 1 THEN Scalars ELSE {}]

\* V and the lists and dicts of items of V
Over(V, keys) ==
    [n \in 1 .. MaxSize |->
        Level0[n] \cup {List(q) : q \in SeqsOver(V, n - 1)}
                  \cup {Dict(f) : f \in MapsOver(V, keys, n - 1)}]

Level1 == Over(Level0, Keys)

Level2 == Over(Level1, Keys)

Sizes(m) == {p \in (1 .. m) \X (1 .. m) : p[1] + p[2] <= m}

\* the pairs of values of at most m nodes together
PairsUpTo(V, m) == UNION {V[p[1]] \X V[p[2]] : p \in Sizes(m)}

SameShape(p) == (IsList(p[1]) /\ IsList(p[2])) \/ (IsDict(p[1]) /\ IsDict(p[2]))

\* two lists or two dicts of at most MaxSize nodes together, and the other
\* pairs (which the dispatcher does not look into) up to two nodes less
Pairs ==
    {p \in PairsUpTo(Level2, MaxSize) : SameShape(p)} \cup PairsUpTo(Level2, MaxSize - 2)

\* the lists of the diff_lists doctest
DocLists ==
    <<List(<<Num(0), Num(1), Num(2), Num(3)>>), List(<<Num(1), Num(2), Num(4), Num(5)>>)>>

\* the pairs of lists of one node less, and the doctest's
ListPairs ==
    {p \in PairsUpTo(Level2, MaxSize - 1) : IsList(p[1]) /\ IsList(p[2])} \cup {DocLists}

\* the dicts of the diff_dicts doctest and of the deeply-nested-hash test
DocDicts ==
    {<<Dict([one |-> Num(1), two |-> Num(2), three |-> Num(3)]),
       Dict([one |-> Num(1), two |-> Num(42)])>>,
     <<Dict([one |-> Dict([two |-> Dict([three |-> Num(3)])])]), EmptyDict>>}

\* the pairs of dicts over two keys, and the documented ones
DictsOfSize == [n \in 1 .. MaxSize |-> {Dict(f) : f \in MapsOver(Level1, TwoKeys, n - 1)}]

DictPairs == PairsUpTo(DictsOfSize, MaxSize) \cup DocDicts

Differs ==
    {Differ(A, N, O, R, U, T) : A \in BOOLEAN, N \in BOOLEAN, O \in BOOLEAN,
                                R \in BOOLEAN, U \in BOOLEAN, T \in BOOLEAN}

NoFrame == [n |-> 0]

(* diff(a, b, options), then patch(a, diff): each call is one step *)

InitOn(pairs) ==
    /\ \E p \in pairs : a = p[1] /\ b = p[2]
    /\ self \in Differs
    /\ pc = "start"
    /\ w = NoFrame
    /\ hist = <<>>
    /\ d = None
    /\ pf = NoFrame
    /\ out = None

Init == InitOn(Pairs)

DiffCall ==
    /\ pc = "start"
    /\ \E r \in {diff(self, a, b)} :
          /\ d' = r.ret
          /\ self' = r.self
    /\ pc' = "diffed"
    /\ UNCHANGED <<a, b, w, hist, pf, out>>

PatchCall ==
    /\ pc = "diffed"
    /\ out' = patch(a, d)
    /\ pc' = "done"
    /\ UNCHANGED <<a, b, self, w, hist, d, pf>>

Next == DiffCall \/ PatchCall

Spec == Init /\ [][Next]_vars

\* diff(a, b, options) alone
SpecDiff == Init /\ [][DiffCall]_vars

(* the same calls on two dicts *)

InitDicts == InitOn(DictPairs)

SpecDicts == InitDicts /\ [][Next]_vars

(* Differ(options).diff_lists(a, b), one loop iteration per step.  hist    *)
(* records, for every item the while loops consume, the loop, the cursors  *)
(* before the iteration and whether the iteration appended a child.        *)

InitLists == InitOn(ListPairs)

ListsEnter ==
    /\ pc = "start"
    /\ w' = diff_lists_enter(self, a, b)
    /\ self' = w'.self
    /\ pc' = "lists"
    /\ UNCHANGED <<a, b, hist, d, pf, out>>

ListsItem(loop) ==
    /\ pc = "lists"
    /\ ~Walked(w)
    /\ LoopAt(w) = loop
    /\ w' = diff_lists_step(w, a, b)
    /\ self' = w'.self
    /\ hist' = Append(hist, [loop |-> loop, i |-> w.i, j |-> w.j,
                             emitted |-> Len(w'.ret) > Len(w.ret)])
    /\ UNCHANGED <<a, b, pc, d, pf, out>>

ListsPair == ListsItem("pair")

ListsRemoved == ListsItem("removed")

ListsAdded == ListsItem("added")

ListsNextBlock ==
    /\ pc = "lists"
    /\ ~Walked(w)
    /\ LoopAt(w) = "next"
    /\ w' = diff_lists_step(w, a, b)
    /\ UNCHANGED <<a, b, self, pc, hist, d, pf, out>>

ListsReturn ==
    /\ pc = "lists"
    /\ Walked(w)
    /\ d' = diff_lists_return(w)
    /\ pc' = "diffed"
    /\ UNCHANGED <<a, b, self, w, hist, pf, out>>

NextLists ==
    ListsEnter \/ ListsPair \/ ListsRemoved \/ ListsAdded \/ ListsNextBlock \/ ListsReturn

SpecLists == InitLists /\ [][NextLists]_vars

(* patch_tool's run(): patch(load(target_file), load(patch_file)), where   *)
(* the diff is whatever the patch file holds.  A patch over a list D is    *)
(* taken one child per step.                                               *)

MaxChildren == 2

MaxIndex == 2

\* the loaded targets: the values of at most three nodes, one level deep
Targets == UNION {Level1[n] : n \in 1 .. 3}

Ops ==
    {Dict([A |-> Num(0)]), Dict([R |-> None]), Dict([N |-> Num(1)]), EmptyDict,
     Dict([D |-> List(<<Dict([A |-> Num(0)])>>)]),
     Dict([D |-> Dict([x |-> Dict([N |-> Num(1)])])])}

\* the children of a list D: an op, with or without I
Children == Ops \cup {SetKey(op, "I", Num(i)) : op \in Ops, i \in -MaxIndex .. MaxIndex}

RECURSIVE ChildSeqs(_)

ChildSeqs(n) ==
    IF n = 0 THEN {<<>>}
    ELSE ChildSeqs(n - 1) \cup {Append(q, c) : q \in {r \in ChildSeqs(n - 1) : Len(r) = n - 1},
                                               c \in Children}

\* the loaded diffs
Nodes ==
    {Dict([D |-> List(q)]) : q \in ChildSeqs(MaxChildren)}
      \cup {Dict([D |-> Dict(f)]) : f \in UNION {[K -> Ops] : K \in SUBSET TwoKeys}}
      \cup {Dict([N |-> Num(1)]), EmptyDict, Dict([D |-> Num(0)])}

InitTool ==
    /\ a \in Targets
    /\ d \in Nodes
    /\ b = None
    /\ self = None
    /\ pc = "loaded"
    /\ w = NoFrame
    /\ hist = <<>>
    /\ pf = NoFrame
    /\ out = None

ListD(node) == In("D", node) /\ IsList(node.v["D"])

ToolPatch ==
    /\ pc = "loaded"
    /\ ~ListD(d)
    /\ out' = patch(a, d)
    /\ pc' = "done"
    /\ UNCHANGED <<a, b, self, w, hist, d, pf>>

PatchListEnter ==
    /\ pc = "loaded"
    /\ ListD(d)
    /\ pf' = patch_list_enter(a, d.v["D"])
    /\ pc' = "patching"
    /\ UNCHANGED <<a, b, self, w, hist, d, out>>

PatchListStep ==
    /\ pc = "patching"
    /\ ~Patched(pf)
    /\ pf' = patch_list_step(pf)
    /\ UNCHANGED <<a, b, self, pc, w, hist, d, out>>

PatchListReturn ==
    /\ pc = "patching"
    /\ Patched(pf)
    /\ out' = pf.target
    /\ pc' = "done"
    /\ UNCHANGED <<a, b, self, w, hist, d, pf>>

NextTool == ToolPatch \/ PatchListEnter \/ PatchListStep \/ PatchListReturn

SpecTool == InitTool /\ [][NextTool]_vars

(* Properties *)

Forward == self.op_a /\ self.op_n /\ self.op_r

\* C1: with emitAdded, emitNew and emitRemoved on, whatever the other
\* toggles, patch(a, diff(a, b)) equals b.
RoundTrip == (pc = "done" /\ Forward) => out = b

\* two lists, removals trimmed, and a child that is relocated by I after a
\* removal has moved the live target
RoundTripWitness ==
    /\ pc = "done" /\ Forward /\ self.op_trim_r /\ out = b
    /\ ListD(d)
    /\ \E n \in 2 .. Len(d.v["D"].v) :
          In("I", d.v["D"].v[n]) /\ In("R", d.v["D"].v[1])

\* C2: diff(v, v) is {U: v} when emitUnchanged is on and the empty node when
\* it is off, whatever the other toggles and the shape of v.
Identity ==
    (pc = "diffed" /\ a = b) => d = (IF self.op_u THEN Dict([U |-> a]) ELSE EmptyDict)

IdentityWitness ==
    pc = "diffed" /\ a = b /\ IsDict(a) /\ Truthy(a) /\ self.op_u /\ ~self.op_a

\* the number of children the first n consumed items have appended
EmitRank(n) == Cardinality({m \in 1 .. n : hist[m].emitted})

\* an item was omitted since the child before the n-th consumed item, or
\* since the start of the list
OmittedBefore(n) ==
    \E m \in 1 .. n - 1 : \A k \in m .. n - 1 : ~hist[k].emitted

\* C3: a child of diff_lists carries I iff an item was omitted since the
\* child before it (or since the start); I is then the cursor into a at the
\* emission, and the emission clears the pending flag.
IndexRule ==
    pc \in {"lists", "diffed"} =>
        /\ \A n \in 1 .. Len(hist) :
              hist[n].emitted =>
                  LET child == w.ret[EmitRank(n)]
                  IN /\ In("I", child) <=> OmittedBefore(n)
                     /\ In("I", child) => child.v["I"] = Num(hist[n].i)
        /\ w.force_index = (hist # <<>> /\ ~hist[Len(hist)].emitted)

\* a child with I is followed by a child without
IndexRuleWitness ==
    /\ pc = "diffed"
    /\ \E n \in 1 .. Len(w.ret) - 1 : In("I", w.ret[n]) /\ ~In("I", w.ret[n + 1])

DefaultToggles == Forward /\ self.op_o /\ ~self.op_trim_r

OnlyIn(x, y) == (DOMAIN x.v) \ (DOMAIN y.v)

ChangedKeys == {k \in (DOMAIN a.v) \cap (DOMAIN b.v) : a.v[k] # b.v[k]}

SameKeys == {k \in (DOMAIN a.v) \cap (DOMAIN b.v) : a.v[k] = b.v[k]}

\* C4: for unequal dicts and the default toggles (emitUnchanged either way)
\* the keys of diff(a, b).D are the keys only in a, only in b or in both
\* with unequal values, and with emitUnchanged the keys with equal values.
KeyCoverage ==
    (pc = "diffed" /\ a # b /\ DefaultToggles) =>
        /\ In("D", d) /\ IsDict(d.v["D"])
        /\ DOMAIN d.v["D"].v =
              OnlyIn(a, b) \cup OnlyIn(b, a) \cup ChangedKeys
                \cup (IF self.op_u THEN SameKeys ELSE {})

\* one key unchanged and left out, the other changed
KeyCoverageWitness ==
    /\ pc = "diffed" /\ a # b /\ DefaultToggles /\ ~self.op_u
    /\ SameKeys # {} /\ ChangedKeys # {}

\* C5: the child of diff(a, b).D at a key only in a is {R: a[k]}, or
\* {R: None} with trimRemoved, when emitRemoved is on; the key has no entry
\* when it is off.
RemovedLeaf ==
    pc = "diffed" =>
        \A k \in OnlyIn(a, b) :
            IF self.op_r
            THEN /\ In("D", d) /\ IsDict(d.v["D"]) /\ In(k, d.v["D"])
                 /\ d.v["D"].v[k] = Dict([R |-> IF self.op_trim_r THEN None ELSE a.v[k]])
            ELSE ~In("D", d) \/ ~In(k, d.v["D"])

\* the deeply nested hash of the test, removed as one leaf
RemovedLeafWitness ==
    /\ pc = "diffed" /\ self.op_r /\ ~self.op_trim_r
    /\ a = Dict([one |-> Dict([two |-> Dict([three |-> Num(3)])])])
    /\ d = Dict([D |-> Dict([one |-> Dict([R |-> a.v["one"]])])])

\* the child at the cursor addresses a position the live list does not have
OutOfBounds(f) ==
    LET c == CurChild(f)
        i == Cursor(f)
        n == Len(f.target.v)
    IN IF In("D", c) \/ In("N", c) \/ (In("R", c) /\ ~In("A", c))
       THEN i < 0 \/ i >= n
       ELSE In("A", c) /\ (i < 0 \/ i > n)

\* a D/N or R child of a dict D addresses a key the target does not have
AbsentKey(target, D) ==
    \E k \in DOMAIN D.v :
        /\ In("D", D.v[k]) \/ In("N", D.v[k]) \/ (In("R", D.v[k]) /\ ~In("A", D.v[k]))
        /\ ~In(k, target)

\* C6: a child operation that addresses a key absent from the live target,
\* or a list position outside it, makes patch fail with an error.
MismatchSurfaced ==
    [][/\ (pc = "patching" /\ ~Patched(pf) /\ IsList(pf.target) /\ OutOfBounds(pf))
            => IsExc(pf'.target)
       /\ (pc = "loaded" /\ In("D", d) /\ IsDict(d.v["D"]) /\ IsDict(a)
              /\ AbsentKey(a, d.v["D"]))
            => IsExc(out')]_vars

\* an addition at position 2 of a one-item list came back as a value
MismatchRepaired ==
    /\ pc = "done"
    /\ a = List(<<Num(0)>>)
    /\ d = Dict([D |-> List(<<Dict([I |-> Num(2), A |-> Num(0)])>>)])
    /\ out = List(<<Num(0), Num(0)>>)

\* C7: for unequal operands that are not two dicts and not two lists, the
\* diff holds N = b iff emitNew is on, O = a iff emitOld is on, nothing else.
LeafRule ==
    (pc = "diffed" /\ a # b /\ ~(IsDict(a) /\ IsDict(b)) /\ ~(IsList(a) /\ IsList(b))) =>
        /\ DOMAIN d.v = (IF self.op_n THEN {"N"} ELSE {}) \cup (IF self.op_o THEN {"O"} ELSE {})
        /\ In("N", d) => d.v["N"] = b
        /\ In("O", d) => d.v["O"] = a

\* a dict against a list, both with content
LeafRuleWitness ==
    /\ pc = "diffed" /\ IsDict(a) /\ IsList(b) /\ Truthy(a) /\ Truthy(b)
    /\ self.op_n /\ ~self.op_o

\* a[i], b[j] are aligned elements of a matching block
InBlock(i, j) ==
    \E n \in 1 .. Len(w.blocks) :
        LET blk == w.blocks[n]
        IN i - blk[1] = j - blk[2] /\ blk[1] <= i /\ i < blk[1] + blk[3]

\* C8 as claimed: the elements inside a matching block never reach the
\* pairing loop and are not emitted as children.
BlocksSkipped ==
    pc \in {"lists", "diffed"} =>
        \A n \in 1 .. Len(hist) : hist[n].loop = "pair" => ~InBlock(hist[n].i, hist[n].j)

\* C8 as amended: every element of a matching block reaches the pairing loop
\* (of the next block's iteration) with its aligned partner, and no other
\* loop; it is emitted as a child {U: a[i]}, with I when an omission is
\* pending, when emitUnchanged is on, and omitted when it is off.
BlocksPaired ==
    pc = "diffed" =>
        \A n \in 1 .. Len(w.blocks) : \A t \in 0 .. w.blocks[n][3] - 1 :
            LET i == w.blocks[n][1] + t
                j == w.blocks[n][2] + t
            IN /\ \E m \in 1 .. Len(hist) :
                    /\ hist[m].loop = "pair" /\ hist[m].i = i /\ hist[m].j = j
                    /\ hist[m].emitted = self.op_u
                    /\ self.op_u =>
                          /\ w.ret[EmitRank(m)].v["U"] = At(a.v, i)
                          /\ DOMAIN w.ret[EmitRank(m)].v \subseteq {"U", "I"}
               /\ \A m \in 1 .. Len(hist) :
                    hist[m].loop = "removed" => hist[m].i # i
               /\ \A m \in 1 .. Len(hist) :
                    hist[m].loop = "added" => hist[m].j # j

\* the doctest's lists with emitUnchanged: 1 and 2 are children
BlocksPairedWitness ==
    /\ pc = "diffed" /\ self.op_u /\ self.op_r /\ self.op_a
    /\ a = DocLists[1] /\ b = DocLists[2]
    /\ w.ret[2] = Dict([U |-> Num(1)]) /\ w.ret[3] = Dict([U |-> Num(2)])

(* the diff computed with a matcher of its own in every diff_lists call *)

RECURSIVE FreshDiff(_, _, _), FreshWalk(_, _, _, _, _, _, _, _, _)

WithIndex(item, force, i) == IF force THEN SetKey(item, "I", Num(i)) ELSE item

FreshWalk(o, x, y, blocks, n, i, j, force, ret) ==
    IF n > Len(blocks) THEN ret
    ELSE IF i < blocks[n][1] /\ j < blocks[n][2]
    THEN LET sub == FreshDiff(o, At(x, i), At(y, j))
         IN IF Truthy(sub)
            THEN FreshWalk(o, x, y, blocks, n, i + 1, j + 1, FALSE,
                           Append(ret, WithIndex(sub, force, i)))
            ELSE FreshWalk(o, x, y, blocks, n, i + 1, j + 1, TRUE, ret)
    ELSE IF i < blocks[n][1]
    THEN IF o.op_r
         THEN FreshWalk(o, x, y, blocks, n, i + 1, j, FALSE,
                        Append(ret, WithIndex(Removed(o, At(x, i)), force, i)))
         ELSE FreshWalk(o, x, y, blocks, n, i + 1, j, TRUE, ret)
    ELSE IF j < blocks[n][2]
    THEN IF o.op_a
         THEN FreshWalk(o, x, y, blocks, n, i, j + 1, FALSE,
                        Append(ret, WithIndex(Dict([A |-> At(y, j)]), force, i)))
         ELSE FreshWalk(o, x, y, blocks, n, i, j + 1, TRUE, ret)
    ELSE FreshWalk(o, x, y, blocks, n + 1, i, j, force, ret)

FreshDiff(o, x, y) ==
    IF x = y THEN (IF o.op_u THEN Dict([U |-> x]) ELSE EmptyDict)
    ELSE IF IsDict(x) /\ IsDict(y)
    THEN LET child(k) ==
                 IF In(k, x) /\ In(k, y) THEN FreshDiff(o, x.v[k], y.v[k])
                 ELSE IF In(k, x) THEN (IF o.op_r THEN Removed(o, x.v[k]) ELSE EmptyDict)
                 ELSE (IF o.op_a THEN Dict([A |-> y.v[k]]) ELSE EmptyDict)
             kept == {k \in (DOMAIN x.v) \cup (DOMAIN y.v) : Truthy(child(k))}
         IN IF kept = {} THEN EmptyDict ELSE Dict([D |-> Dict([k \in kept |-> child(k)])])
    ELSE IF IsList(x) /\ IsList(y)
    THEN LET blocks == matching_blocks([k \in 1 .. Len(x.v) |-> dumps(x.v[k])],
                                       [k \in 1 .. Len(y.v) |-> dumps(y.v[k])])
             ret == FreshWalk(o, x.v, y.v, blocks, 1, 0, 0, FALSE, <<>>)
         IN IF ret = <<>> THEN EmptyDict ELSE Dict([D |-> List(ret)])
    ELSE get_default_diff(o, x, y)

\* C9: the diff computed with the Differ's one matcher, which the nested
\* diff_lists calls overwrite, is the diff computed with a fresh matcher in
\* every diff_lists call.
SharedMatcher == pc = "diffed" => d = FreshDiff(self, a, b)

\* two lists whose matcher was left holding the sequences of a nested call,
\* with items still to consume after that call
SharedMatcherWitness ==
    /\ pc = "diffed" /\ IsList(a) /\ IsList(b) /\ ListD(d)
    /\ self.lcs.a # [k \in 1 .. Len(a.v) |-> dumps(a.v[k])]
    /\ ListD(d.v["D"].v[1])
    /\ Len(d.v["D"].v) > 1

RECURSIVE NoEmptyD(_)

\* no D of the node, at any depth, is empty or has an empty child
NoEmptyD(node) ==
    In("D", node) =>
        LET D == node.v["D"]
        IN IF IsDict(D)
           THEN DOMAIN D.v # {} /\ \A k \in DOMAIN D.v : Truthy(D.v[k]) /\ NoEmptyD(D.v[k])
           ELSE Len(D.v) > 0 /\ \A n \in 1 .. Len(D.v) : Truthy(D.v[n]) /\ NoEmptyD(D.v[n])

\* C10: with emitAdded, emitNew and emitRemoved on and emitUnchanged off,
\* diff(a, b) is the empty node iff a equals b, and no D at any depth is
\* empty or holds an empty child.
EmptyMeansEqual ==
    (pc = "diffed" /\ Forward /\ ~self.op_u) =>
        /\ (d = EmptyDict) <=> (a = b)
        /\ NoEmptyD(d)

\* unequal lists whose diff goes two levels deep, old values off
EmptyMeansEqualWitness ==
    /\ pc = "diffed" /\ Forward /\ ~self.op_u /\ ~self.op_o /\ a # b
    /\ ListD(d) /\ \E n \in 1 .. Len(d.v["D"].v) : In("D", d.v["D"].v[n])

====
